---- MODULE Spec2Model ----
(***************************************************************************)
(* Model of VirshWrapper.get_dhcp_lease                                    *)
(* (src/pytest_ansible_network_integration/defs.py).                       *)
(*                                                                         *)
(* Text is modelled as a sequence of one-character strings, so that the    *)
(* parsers of the command outputs (splitlines, the domain-id pattern,      *)
(* split on whitespace, the cut at "/", the substring pre-filter) are      *)
(* computed as the code computes them.  A domain XML dump is modelled by   *)
(* its raw text, whether it is well-formed, and its interface elements.    *)
(***************************************************************************)
EXTENDS Integers, Sequences, FiniteSets, TLC

VARIABLES
    pc,           \* position in get_dhcp_lease
    attempt,      \* local `attempt`
    current_lab,  \* local `current_lab` (parsed XML, NoLab = {})
    virsh_ids,    \* local `virsh_ids` of the current locator pass
    idx,          \* position of the `for virsh_id in virsh_ids` loop
    macs,         \* local `macs`
    leases,       \* local `leases` of the latest poll
    ips,          \* local `ips`
    stdout,       \* local `stdout`: output of the latest remote command
    result,       \* the returned value
    failure,      \* the exception that left get_dhcp_lease
    cmd,          \* the latest command given to ssh.execute
    dumped,       \* ids given to `virsh dumpxml` in the current locator pass
    last_doc,     \* the domain dump that the latest dumpxml command returned
    nList,        \* number of "sudo virsh list --all" commands issued
    nLease,       \* number of "sudo virsh net-dhcp-leases default" commands
    sleptLoc,     \* total time.sleep in the locator loop
    sleptRes      \* total time.sleep in the resolver loop

\* SshWrapper (defs.py lines 43-100)
VARIABLES
    is_connected, \* session.is_connected
    ssh_channel,  \* self.ssh_channel: its number (0: never set) and state
    ssh_call,     \* the latest call of a method of the wrapper
    nChannels     \* number of channels the session has opened

lease_vars == <<pc, attempt, current_lab, virsh_ids, idx, macs, leases, ips,
                stdout, result, failure, cmd, dumped, last_doc, nList,
                nLease, sleptLoc, sleptRes>>

ssh_vars == <<is_connected, ssh_channel, ssh_call, nChannels>>

\* CmlWrapper (defs.py lines 103-205) and the appliance_dhcp_address
\* fixture (__init__.py lines 219-277)
VARIABLES
    fx_pc,          \* position in _appliance_dhcp_address
    fx_raised,      \* the exception that left the fixture, with its causes
    fx_value,       \* the address the fixture yields
    cml_lab_id,     \* CmlWrapper.current_lab_id (<<>>: not set)
    lab_existed,    \* CmlWrapper._lab_existed
    cml_cmds,       \* the commands given to CmlWrapper._run, in order
    id_stdout,      \* what "cml id" printed to bring_up
    started,        \* the lab that `cml up` started for this wrapper
    github_actions, \* the environment has a non-empty GITHUB_ACTIONS
    github_env,     \* the environment has a non-empty GITHUB_ENV
    env_before,     \* the text of the GITHUB_ENV file before bring_up
    env_file        \* the text of the GITHUB_ENV file

cml_vars == <<fx_pc, fx_raised, fx_value, cml_lab_id, lab_existed, cml_cmds,
              id_stdout, started, github_actions, github_env, env_before, env_file>>

vars == <<lease_vars, ssh_vars, cml_vars>>

----------------------------------------------------------------------------
(* Bounds of the model *)

MaxDomains == 2     \* most domain rows in a generated domain listing
MaxIfaces == 2      \* most interface elements in a generated domain dump
MaxChannels == 3    \* most channels opened on one SSH session

(* Constants of the program *)

LocatorAttempts == 10
LocatorSleep == 5
ResolverAttempts == 30
ResolverSleep == 10
LeaseFields == 7

----------------------------------------------------------------------------
(* Text helpers *)

Digits == <<"0", "1", "2", "3", "4", "5", "6", "7", "8", "9">>

Digit(i) == Digits[i + 1]

IsDigit(c) == c \in {"0", "1", "2", "3", "4", "5", "6", "7", "8", "9"}

IsSpace(c) == c \in {" ", "\t"}

NL == "\n"

RECURSIVE JoinLines(_)
JoinLines(ls) ==
    IF ls = <<>> THEN <<>> ELSE Head(ls) \o <<NL>> \o JoinLines(Tail(ls))

RECURSIVE SplitLinesFrom(_, _, _, _)
SplitLinesFrom(s, i, cur, acc) ==
    IF i > Len(s)
    THEN IF cur = <<>> THEN acc ELSE Append(acc, cur)
    ELSE IF s[i] = NL
         THEN SplitLinesFrom(s, i + 1, <<>>, Append(acc, cur))
         ELSE SplitLinesFrom(s, i + 1, Append(cur, s[i]), acc)

\* str.splitlines()
splitlines(s) == SplitLinesFrom(s, 1, <<>>, <<>>)

RECURSIVE SplitFrom(_, _, _, _)
SplitFrom(line, i, cur, acc) ==
    IF i > Len(line)
    THEN IF cur = <<>> THEN acc ELSE Append(acc, cur)
    ELSE IF IsSpace(line[i])
         THEN SplitFrom(line, i + 1, <<>>,
                        IF cur = <<>> THEN acc ELSE Append(acc, cur))
         ELSE SplitFrom(line, i + 1, Append(cur, line[i]), acc)

\* str.split(): the whitespace-separated fields of a line
split(line) == SplitFrom(line, 1, <<>>, <<>>)

\* variant: the needle must open the text (str.startswith)
Contains_prefix(text, needle) ==
    /\ Len(text) >= Len(needle)
    /\ SubSeq(text, 1, Len(needle)) = needle

\* variant: the pre-filter lets every dump through
Contains_any(text, needle) == TRUE

\* `needle in text` on strings
Contains(text, needle) ==
    \E i \in 0..(Len(text) - Len(needle)) :
        SubSeq(text, i + 1, i + Len(needle)) = needle

----------------------------------------------------------------------------
(* Parsing of the domain listing: defs.py lines 237-240 *)

RECURSIVE DigitRun(_, _)
DigitRun(line, i) ==
    IF i <= Len(line) /\ IsDigit(line[i])
    THEN <<line[i]>> \o DigitRun(line, i + 1)
    ELSE <<>>

\* variant: one whitespace character, whatever follows it
virsh_match_loose(line) ==
    /\ Len(line) >= 2
    /\ IsSpace(line[1])

\* re.match(r"^\s(?P<id>\d+)", line): one whitespace character, then digits
virsh_match(line) ==
    /\ Len(line) >= 2
    /\ IsSpace(line[1])
    /\ IsDigit(line[2])

\* virsh_match.groupdict()["id"]
MatchId(line) == DigitRun(line, 2)

RECURSIVE IdsOf(_)
IdsOf(lines) ==
    IF lines = <<>> THEN <<>>
    ELSE (IF virsh_match(Head(lines)) THEN <<MatchId(Head(lines))>> ELSE <<>>)
         \o IdsOf(Tail(lines))

ParseIds(out) == IdsOf(splitlines(out))

----------------------------------------------------------------------------
(* Parsing of the domain dump: defs.py lines 244-258 *)

NoLab == [kind |-> "empty"]

\* xmltodict.parse(stdout), called without force_list: a child element that
\* occurs once becomes a dict, one that occurs several times becomes a list
\* of dicts, and one that does not occur is no key of the parent.
xmltodict_parse(doc) ==
    LET n == Len(doc.interfaces)
        iface(j) == [mac |-> [address |-> doc.interfaces[j]]]
    IN  [kind |-> "dict",
         interface |->
            IF n = 0 THEN [kind |-> "absent"]
            ELSE IF n = 1 THEN [kind |-> "dict", value |-> iface(1)]
            ELSE [kind |-> "list", value |-> [j \in 1..n |-> iface(j)]]]

\* current_lab["domain"]["devices"]["interface"] and the iteration over it.
\* Iterating a dict yields its keys, and subscripting a key (a str) with
\* "mac" raises TypeError; a missing key raises KeyError.
MacsOutcome(lab) ==
    LET ifs == lab.interface
    IN  IF ifs.kind = "absent" THEN [ok |-> FALSE, error |-> "KeyError"]
        ELSE IF ifs.kind = "dict" THEN [ok |-> FALSE, error |-> "TypeError"]
        ELSE [ok |-> TRUE,
              macs |-> [j \in 1..Len(ifs.value) |-> ifs.value[j].mac.address]]

----------------------------------------------------------------------------
(* Parsing of the lease listing: defs.py lines 267-273 *)

\* variant: the field is kept whole, mask included
BeforeSlash_keep(f) == f

\* p[4].split("/")[0]
BeforeSlash(f) ==
    LET cuts == {i \in 1..Len(f) : f[i] = "/"}
    IN  IF cuts = {} THEN f
        ELSE SubSeq(f, 1, (CHOOSE i \in cuts : \A j \in cuts : i <= j) - 1)

\* variant: longer rows are taken for lease records too
IsLeaseRecord_atleast(p) == Len(p) >= LeaseFields

\* `if len(p) == 7`
IsLeaseRecord(p) == Len(p) = LeaseFields

EmptyDict == [m \in {} |-> <<>>]

\* the dict comprehension: a later line replaces an earlier one with its key
RECURSIVE BuildLeases(_, _)
BuildLeases(lines, d) ==
    IF lines = <<>> THEN d
    ELSE LET p == split(Head(lines))
         IN  BuildLeases(Tail(lines),
                IF IsLeaseRecord(p)
                THEN [m \in (DOMAIN d) \cup {p[3]} |->
                         IF m = p[3] THEN BeforeSlash(p[5]) ELSE d[m]]
                ELSE d)

ParseLeases(out) == BuildLeases(splitlines(out), EmptyDict)

\* ips = [leases[mac] for mac in macs if mac in leases]
RECURSIVE LookupIps(_, _)
LookupIps(ms, d) ==
    IF ms = <<>> THEN <<>>
    ELSE (IF Head(ms) \in DOMAIN d THEN <<d[Head(ms)]>> ELSE <<>>)
         \o LookupIps(Tail(ms), d)

----------------------------------------------------------------------------
(* What the remote host can answer *)

\* the argument `current_lab_id`
current_lab_id == <<"a", "b">>

Mac(i) == <<"m", Digit(i)>>

OtherMac == <<"m", "x">>

Ip1 == <<"i", "1">>
Ip2 == <<"i", "2">>
Ip3 == <<"i", "3">>

Cidr(ip) == ip \o <<"/", "8">>

ListHeader == <<" ", "I", "d", " ", "N">>
ListRule == <<"-", "-", "-">>

DomainRow(i) == <<" ", Digit(i), " ", "r">>

\* outputs of "sudo virsh list --all"
ListOutputs ==
    {JoinLines(<<ListHeader, ListRule>> \o [j \in 1..n |-> DomainRow(j)]) :
        n \in 0..MaxDomains}
    \cup {JoinLines(<<ListHeader, ListRule, DomainRow(2), <<>>, DomainRow(1)>>),
          JoinLines(<<ListHeader, ListRule,
                      <<" ", "-", " ", "o">>,
                      <<" ", " ", "3", " ", "r">>,
                      <<"4", " ", "r">>,
                      <<"\t", "1", "2", " ", "r">>>>)}

InterfaceLists ==
    {[j \in 1..n |-> Mac(j)] : n \in 0..MaxIfaces} \cup {<<Mac(1), Mac(1)>>}

\* outputs of "sudo virsh dumpxml <id>": the raw text, whether it is
\* well-formed XML, and the MAC of each interface element of the domain
Docs ==
    {[text |-> <<"a", "x", "b">>, wellformed |-> TRUE,
      interfaces |-> <<Mac(1), Mac(2)>>],
     [text |-> <<"x", "a", "b", "y">>, wellformed |-> FALSE,
      interfaces |-> <<>>]}
    \cup {[text |-> <<"x", "a", "b", "y">>, wellformed |-> TRUE,
           interfaces |-> l] : l \in InterfaceLists}

LeaseHeader == <<" ", "E", " ", "M", " ", "P", " ", "I", " ", "H", " ", "C">>
LeaseRule == <<"-", "-", "-">>

\* a lease row: date, time, MAC, protocol, address, hostname, client id
LeaseRow(mac, ipf) ==
    <<" ", "d", " ", "t", " ", " ">> \o mac \o <<" ", "4", "\t">> \o ipf
        \o <<" ", "h", " ", "c">>

\* the same row without a client id (6 fields) and with a split one (8)
ShortRow(mac, ipf) ==
    <<" ", "d", " ", "t", " ">> \o mac \o <<" ", "4", " ">> \o ipf
        \o <<" ", "h">>

LongRow(mac, ipf) == LeaseRow(mac, ipf) \o <<" ", "c">>

LeaseTable(rows) == JoinLines(<<LeaseHeader, LeaseRule>> \o rows \o <<<<>>>>)

\* outputs of "sudo virsh net-dhcp-leases default"
LeaseOutputs ==
    {LeaseTable(<<>>),
     LeaseTable(<<LeaseRow(OtherMac, Cidr(Ip3)), ShortRow(Mac(1), Cidr(Ip1)),
                  LongRow(Mac(2), Cidr(Ip2))>>),
     LeaseTable(<<LeaseRow(Mac(1), Cidr(Ip1))>>),
     LeaseTable(<<LeaseRow(OtherMac, Cidr(Ip3)), LeaseRow(Mac(2), Cidr(Ip2))>>),
     LeaseTable(<<LeaseRow(Mac(1), Cidr(Ip1)), LeaseRow(Mac(2), Cidr(Ip2))>>),
     LeaseTable(<<LeaseRow(Mac(1), Cidr(Ip1)), LeaseRow(Mac(2), Cidr(Ip1))>>),
     LeaseTable(<<LeaseRow(Mac(1), Cidr(Ip1)), LeaseRow(Mac(1), Ip2)>>)}

----------------------------------------------------------------------------
(* The failures that leave get_dhcp_lease *)

LocatorExhausted == "Could not find current lab"
ResolverExhausted == "Could not find IPs"
AmbiguousLease == "Found more than one IP"
ParseError == "ExpatError"
ChannelError == "LibsshSessionException"

NoFailure == "none"

NoResult == <<>>

NoDoc == [text |-> <<>>, wellformed |-> FALSE, interfaces |-> <<>>]

Command(op, arg) == [op |-> op, arg |-> arg]

----------------------------------------------------------------------------
(* SshWrapper: defs.py lines 43-100 *)

SshCommands == {"c1", "c2"}

\* what the remote side does to the steps of one call: whether the channel
\* closes, the session connects, a channel opens, the command runs
SshWeather ==
    [close_ok : BOOLEAN, connect_ok : BOOLEAN, channel_ok : BOOLEAN,
     exec_ok : BOOLEAN]

NoChannel == [id |-> 0, open |-> FALSE]

NoCall ==
    [op |-> "none", command |-> "none", was_connected |-> FALSE,
     weather |-> [close_ok |-> TRUE, connect_ok |-> TRUE, channel_ok |-> TRUE,
                  exec_ok |-> TRUE],
     closes |-> 0, connects |-> 0, opened |-> 0, ran_on |-> 0,
     out |-> "none", error |-> "none", stdout |-> <<>>]

\* the wrapper after __init__ (lines 54-59): ssh_channel is only annotated
SshIdle ==
    /\ is_connected = FALSE
    /\ ssh_channel = NoChannel
    /\ ssh_call = NoCall
    /\ nChannels = 0

\* result.stdout.decode() of the command
SshOutput(command) == <<"stdout of", command>>

\* the state and the record of a call, threaded through its steps
SshBegin(op, command, w) ==
    [connected |-> is_connected, channel |-> ssh_channel, n |-> nChannels,
     call |-> [NoCall EXCEPT !.op = op, !.command = command,
                             !.was_connected = is_connected, !.weather = w],
     raised |-> FALSE]

SshRaise(t, error) ==
    [t EXCEPT !.raised = TRUE, !.call.out = "raise", !.call.error = error]

\* close(), line 100: self.ssh_channel.close()
SshCloseStep(t) ==
    IF t.raised THEN t
    ELSE IF t.channel.id = 0
    THEN SshRaise([t EXCEPT !.call.closes = @ + 1], "AttributeError")
    ELSE IF ~t.call.weather.close_ok
    THEN SshRaise([t EXCEPT !.call.closes = @ + 1], ChannelError)
    ELSE [t EXCEPT !.call.closes = @ + 1, !.channel.open = FALSE]

\* connect(), lines 66-78: session.connect, then session.new_channel
SshConnectStep(t) ==
    IF t.raised THEN t
    ELSE IF ~t.call.weather.connect_ok
    THEN SshRaise([t EXCEPT !.call.connects = @ + 1, !.connected = FALSE],
                  ChannelError)
    ELSE IF ~t.call.weather.channel_ok
    THEN SshRaise([t EXCEPT !.call.connects = @ + 1, !.connected = TRUE],
                  ChannelError)
    ELSE [t EXCEPT !.call.connects = @ + 1, !.connected = TRUE,
                   !.n = @ + 1, !.call.opened = t.n + 1,
                   !.channel = [id |-> t.n + 1, open |-> TRUE]]

\* lines 90-96: self.ssh_channel.exec_command(command)
SshExecStep(t) ==
    IF t.raised THEN t
    ELSE IF t.channel.id = 0
    THEN SshRaise(t, "AttributeError")
    ELSE IF ~(t.call.weather.exec_ok /\ t.channel.open /\ t.connected)
    THEN SshRaise([t EXCEPT !.call.ran_on = t.channel.id], ChannelError)
    ELSE [t EXCEPT !.call.ran_on = t.channel.id, !.call.out = "return",
                   !.call.stdout = SshOutput(t.call.command)]

\* variant: the session is never looked at
NeedsReconnect_never(connected) == FALSE

\* line 87: `if not self.session.is_connected`
NeedsReconnect(connected) == ~connected

\* execute(command), lines 87-96
SshExecuteCall(command, w) ==
    LET t == SshBegin("execute", command, w)
    IN  IF NeedsReconnect(t.connected)
        THEN SshExecStep(SshConnectStep(SshCloseStep(t)))
        ELSE SshExecStep(t)

SshCommit(t) ==
    /\ is_connected' = t.connected
    /\ ssh_channel' = t.channel
    /\ nChannels' = t.n
    /\ ssh_call' = t.call
    /\ UNCHANGED <<lease_vars, cml_vars>>

\* VirshWrapper.__init__ (line 220) calls connect()
SshConnect ==
    /\ nChannels < MaxChannels
    /\ \E w \in SshWeather :
        SshCommit(SshConnectStep(SshBegin("connect", "none", w)))

SshExecute ==
    /\ nChannels < MaxChannels
    /\ \E command \in SshCommands : \E w \in SshWeather :
        SshCommit(SshExecuteCall(command, w))

\* VirshWrapper.close (line 288) calls close()
SshClose ==
    \E w \in SshWeather :
        SshCommit(SshCloseStep(SshBegin("close", "none", w)))

\* the remote side or the network ends the session
SessionDrops ==
    /\ is_connected
    /\ is_connected' = FALSE
    /\ UNCHANGED <<ssh_channel, ssh_call, nChannels, lease_vars, cml_vars>>

SshNext ==
    \/ SshConnect
    \/ SshExecute
    \/ SshClose
    \/ SessionDrops

----------------------------------------------------------------------------
(* CmlWrapper: defs.py lines 103-205 *)

IsBlank(c) == c \in {" ", "\t", "\n"}

IdMarker == <<"I", "D", ":", " ">>

\* the last character of the run of non-blank characters that starts at i
RECURSIVE RunEnd(_, _)
RunEnd(text, i) ==
    IF i <= Len(text) /\ ~IsBlank(text[i]) THEN RunEnd(text, i + 1) ELSE i - 1

\* the places where r"ID: (?P<id>\S+)\)\n" fits: "ID: ", then non-blank
\* characters of which the last is ")", then a newline
IdPlaces(text) ==
    {q \in 1..Len(text) :
        /\ q + 3 <= Len(text)
        /\ SubSeq(text, q, q + 3) = IdMarker
        /\ LET e == RunEnd(text, q + 4)
           IN  /\ e >= q + 5
               /\ text[e] = ")"
               /\ e + 1 <= Len(text)
               /\ text[e + 1] = NL}

\* re.match(r".*ID: (?P<id>\S+)\)\n", stdout, re.DOTALL).groupdict()["id"]:
\* the greedy ".*" settles on the last place that fits; <<>> when none does
LabIdMatch(text) ==
    IF IdPlaces(text) = {} THEN <<>>
    ELSE LET q == CHOOSE x \in IdPlaces(text) : \A y \in IdPlaces(text) : y <= x
         IN  SubSeq(text, q + 4, RunEnd(text, q + 4) - 1)

RECURSIVE ReadLinesFrom(_, _, _, _)
ReadLinesFrom(text, i, cur, acc) ==
    IF i > Len(text)
    THEN IF cur = <<>> THEN acc ELSE Append(acc, cur)
    ELSE IF text[i] = NL
         THEN ReadLinesFrom(text, i + 1, <<>>, Append(acc, Append(cur, NL)))
         ELSE ReadLinesFrom(text, i + 1, Append(cur, text[i]), acc)

\* fh.readlines(): the lines, each with its newline
readlines(text) == ReadLinesFrom(text, 1, <<>>, <<>>)

\* fh.writelines(data): the items one after the other, nothing added
RECURSIVE writelines(_)
writelines(data) ==
    IF data = <<>> THEN <<>> ELSE Head(data) \o writelines(Tail(data))

CmlLabsKey == <<"C", "M", "L", "_", "L", "A", "B", "S", "=">>

\* line.startswith(prefix)
startswith(line, prefix) ==
    /\ Len(line) >= Len(prefix)
    /\ SubSeq(line, 1, Len(prefix)) = prefix

\* lines 158-168: the file with the lab id added to its CML_LABS entry
StoreLabId(text, id) ==
    LET data == readlines(text)
        line_id == {k \in 1..Len(data) : startswith(data[k], CmlLabsKey)}
    IN  IF line_id = {}
        THEN writelines(Append(data, CmlLabsKey \o id))
        ELSE LET first == CHOOSE k \in line_id : \A j \in line_id : k <= j
             IN  writelines([data EXCEPT ![first] = @ \o <<",">> \o id])

Lab(i) == <<"l", Digit(i)>>

CmlReport(id) == <<"L", " ", "(">> \o IdMarker \o id \o <<")", NL>>

\* outputs of "cml id": nothing, the lab in use, something else
IdOutputs == {<<>>, CmlReport(Lab(1)), <<"n", "o", NL>>}

\* outputs of "cml up -f <file>": the lab was started, or it was not
UpOutputs == {CmlReport(Lab(2)), <<"E", "r", "r", NL>>}

\* texts of the GITHUB_ENV file
EnvFiles ==
    {<<>>,
     <<"X", "=", "1", NL>>,
     <<"X", "=", "1">>,
     CmlLabsKey \o Lab(1),
     CmlLabsKey \o Lab(1) \o <<NL>>,
     <<"X", "=", "1", NL>> \o CmlLabsKey \o Lab(1) \o <<",">> \o Lab(3)
        \o <<NL, "Y", "=", "2", NL>>}

\* variant: the lab is removed whether or not it was there before
RemoveCommands_always ==
    <<Command("cml use --id", cml_lab_id),
      Command("cml rm --force --no-confirm", <<>>)>>

\* remove(), lines 172-180: the commands it runs
RemoveCommands ==
    IF lab_existed THEN <<>>
    ELSE <<Command("cml use --id", cml_lab_id),
           Command("cml rm --force --no-confirm", <<>>)>>

NoException == <<>>

\* the wrapper after __init__ and the fixture before its first line, with
\* no GitHub environment
CmlIdle ==
    /\ fx_pc = "start"
    /\ fx_raised = NoException
    /\ fx_value = "none"
    /\ cml_lab_id = <<>>
    /\ lab_existed = FALSE
    /\ cml_cmds = <<>>
    /\ id_stdout = <<>>
    /\ started = <<>>
    /\ github_actions = FALSE
    /\ github_env = FALSE
    /\ env_before = <<>>
    /\ env_file = <<>>

\* the same under any environment
CmlInit ==
    /\ fx_pc = "start"
    /\ fx_raised = NoException
    /\ fx_value = "none"
    /\ cml_lab_id = <<>>
    /\ lab_existed = FALSE
    /\ cml_cmds = <<>>
    /\ id_stdout = <<>>
    /\ started = <<>>
    /\ github_actions \in BOOLEAN
    /\ github_env \in BOOLEAN
    /\ env_before \in EnvFiles
    /\ env_file = env_before

\* `except Exception as exc` of the fixture, __init__.py lines 264-267
ProvisionFails(causes) ==
    /\ fx_pc' = "failed"
    /\ fx_raised' = <<"Failed to provision lab">> \o causes

\* __init__.py lines 233-243: the options and the lab file are checked
FixtureStart ==
    /\ fx_pc = "start"
    /\ \/ fx_pc' = "bring_up" /\ fx_raised' = fx_raised
       \/ ProvisionFails(<<"Missing CML lab">>)
       \/ ProvisionFails(<<"Missing lab file">>)
    /\ UNCHANGED <<fx_value, cml_lab_id, lab_existed, cml_cmds, id_stdout,
                   started,
                   github_actions, github_env, env_before, env_file,
                   lease_vars, ssh_vars>>

\* __init__.py line 244 with bring_up, defs.py lines 129-168
BringUp ==
    /\ fx_pc = "bring_up"
    /\ \E id_out \in IdOutputs : \E up_out \in UpOutputs :
        /\ id_stdout' = id_out
        /\ IF id_out # <<>> /\ LabIdMatch(id_out) # <<>>
           THEN /\ cml_cmds' = Append(cml_cmds, Command("cml id", <<>>))
                /\ cml_lab_id' = LabIdMatch(id_out)
                /\ lab_existed' = TRUE
                /\ fx_pc' = "virsh"
                /\ UNCHANGED <<fx_raised, started, env_file>>
           ELSE /\ cml_cmds' = cml_cmds \o <<Command("cml id", <<>>),
                                             Command("cml up -f", <<>>)>>
                /\ lab_existed' = lab_existed
                /\ IF LabIdMatch(up_out) = <<>>
                   THEN /\ ProvisionFails(<<"Could not get lab ID">>)
                        /\ UNCHANGED <<cml_lab_id, started, env_file>>
                   ELSE /\ cml_lab_id' = LabIdMatch(up_out)
                        /\ started' = LabIdMatch(up_out)
                        /\ fx_pc' = "virsh"
                        /\ fx_raised' = fx_raised
                        /\ env_file' = IF github_actions /\ github_env
                                       THEN StoreLabId(env_file, cml_lab_id')
                                       ELSE env_file
    /\ UNCHANGED <<fx_value, github_actions, github_env, env_before,
                   lease_vars, ssh_vars>>

\* __init__.py lines 248-253: VirshWrapper(...) connects, or raises
OpenVirsh ==
    /\ fx_pc = "virsh"
    /\ \/ fx_pc' = "lease" /\ fx_raised' = fx_raised
       \/ ProvisionFails(<<ChannelError>>)
    /\ UNCHANGED <<fx_value, cml_lab_id, lab_existed, cml_cmds, id_stdout,
                   started,
                   github_actions, github_env, env_before, env_file,
                   lease_vars, ssh_vars>>

\* what get_dhcp_lease can end with
LeaseFailures ==
    {LocatorExhausted, ResolverExhausted, AmbiguousLease, ParseError,
     ChannelError, "KeyError", "TypeError"}

\* __init__.py lines 255-260: the lease is got, or the lab is removed
GetLease ==
    /\ fx_pc = "lease"
    /\ \/ /\ \E ip \in {"i1", "i2"} : fx_value' = ip
          /\ fx_pc' = "close"
          /\ UNCHANGED <<fx_raised, cml_cmds>>
       \/ \E f \in LeaseFailures :
            \/ /\ cml_cmds' = cml_cmds \o RemoveCommands
               /\ ProvisionFails(
                    <<"Failed to get DHCP lease for the appliance", f>>)
               /\ fx_value' = fx_value
            \/ /\ ProvisionFails(<<ChannelError, f>>)
               /\ UNCHANGED <<fx_value, cml_cmds>>
    /\ UNCHANGED <<cml_lab_id, lab_existed, id_stdout, started, github_actions,
                   github_env, env_before, env_file, lease_vars, ssh_vars>>

\* __init__.py lines 269-272: virsh.close(), then the address is yielded
CloseVirsh ==
    /\ fx_pc = "close"
    /\ \/ fx_pc' = "yielded" /\ fx_raised' = fx_raised
       \/ fx_pc' = "failed" /\ fx_raised' = <<ChannelError>>
    /\ UNCHANGED <<fx_value, cml_lab_id, lab_existed, cml_cmds, id_stdout,
                   started,
                   github_actions, github_env, env_before, env_file,
                   lease_vars, ssh_vars>>

\* __init__.py lines 274-276: after the yield
Teardown ==
    /\ fx_pc = "yielded"
    /\ cml_cmds' = cml_cmds \o RemoveCommands
    /\ fx_pc' = "finished"
    /\ UNCHANGED <<fx_raised, fx_value, cml_lab_id, lab_existed, id_stdout,
                   started,
                   github_actions, github_env, env_before, env_file,
                   lease_vars, ssh_vars>>

CmlNext ==
    \/ FixtureStart
    \/ BringUp
    \/ OpenVirsh
    \/ GetLease
    \/ CloseVirsh
    \/ Teardown

----------------------------------------------------------------------------
(* get_dhcp_lease: defs.py lines 222-284 *)

\* variant: the budget is two passes larger
LocatorGivesUp_more(a) == a = LocatorAttempts + 2

\* variant: the budget is checked one pass late
LocatorGivesUp_late(a) == a = LocatorAttempts + 1

\* `if attempt == 10`
LocatorGivesUp(a) == a = LocatorAttempts

\* variant: the budget is checked one poll late
ResolverGivesUp_late(a) == a = ResolverAttempts + 1

\* `if attempt == 30`
ResolverGivesUp(a) == a = ResolverAttempts

\* `while not ips`
ResolverLoops(found) == found = <<>>

\* `if len(ips) > 1`
IsAmbiguous(found) == Len(found) > 1

\* everything outside get_dhcp_lease
other_vars == <<ssh_vars, cml_vars>>

LeaseInit ==
    /\ pc = "list"
    /\ attempt = 0
    /\ current_lab = NoLab
    /\ virsh_ids = <<>>
    /\ idx = 0
    /\ macs = <<>>
    /\ leases = EmptyDict
    /\ ips = <<>>
    /\ stdout = <<>>
    /\ result = NoResult
    /\ failure = NoFailure
    /\ cmd = Command("none", <<>>)
    /\ dumped = <<>>
    /\ last_doc = NoDoc
    /\ nList = 0
    /\ nLease = 0
    /\ sleptLoc = 0
    /\ sleptRes = 0

Init == LeaseInit /\ SshIdle /\ CmlIdle

\* the command that the next ssh.execute call of get_dhcp_lease sends
NextCommand ==
    IF pc = "list" THEN Command("sudo virsh list --all", <<>>)
    ELSE IF pc = "dump" THEN Command("sudo virsh dumpxml", virsh_ids[idx])
    ELSE Command("sudo virsh net-dhcp-leases default", <<>>)

\* ssh.execute sends the command: the bookkeeping shared by the callers
Issue ==
    /\ cmd' = NextCommand
    /\ nList' = IF pc = "list" THEN nList + 1 ELSE nList
    /\ nLease' = IF pc = "poll" THEN nLease + 1 ELSE nLease
    /\ dumped' = IF pc = "dump" THEN Append(dumped, virsh_ids[idx])
                 ELSE IF pc = "list" THEN <<>> ELSE dumped

\* SshWrapper.execute re-raises LibsshSessionException, and get_dhcp_lease
\* does not catch it
ExecuteRaises ==
    /\ pc \in {"list", "dump", "poll"}
    /\ Issue
    /\ pc' = "failed"
    /\ failure' = ChannelError
    /\ UNCHANGED <<attempt, current_lab, virsh_ids, idx, macs, leases, ips,
                   stdout, result, last_doc, sleptLoc, sleptRes>>
    /\ UNCHANGED other_vars

\* lines 235-240: list the domains and keep the candidate ids
ListDomains ==
    /\ pc = "list"
    /\ Issue
    /\ \E out \in ListOutputs :
        /\ stdout' = out
        /\ virsh_ids' = ParseIds(out)
    /\ idx' = 1
    /\ pc' = IF virsh_ids' = <<>> THEN "retry" ELSE "dump"
    /\ UNCHANGED <<attempt, current_lab, macs, leases, ips, result, failure,
                   last_doc, sleptLoc, sleptRes>>
    /\ UNCHANGED other_vars

\* variant: a dump that does not parse is passed over like a non-match
DumpOutcome_skip(doc) ==
    IF ~Contains(doc.text, current_lab_id) THEN "next"
    ELSE IF doc.wellformed THEN "found"
    ELSE "next"

\* lines 244-247: what one dump does to the scan of the candidate ids
DumpOutcome(doc) ==
    IF ~Contains(doc.text, current_lab_id) THEN "next"
    ELSE IF doc.wellformed THEN "found"
    ELSE "raise"

\* lines 242-249: one turn of `for virsh_id in virsh_ids`
DumpXml ==
    /\ pc = "dump"
    /\ Issue
    /\ \E doc \in Docs :
        /\ stdout' = doc.text
        /\ last_doc' = doc
        /\ current_lab' = IF DumpOutcome(doc) = "found"
                          THEN xmltodict_parse(doc) ELSE current_lab
        /\ failure' = IF DumpOutcome(doc) = "raise"
                      THEN ParseError ELSE failure
        /\ idx' = IF DumpOutcome(doc) = "next" THEN idx + 1 ELSE idx
        /\ pc' = IF DumpOutcome(doc) = "found" THEN "macs"
                 ELSE IF DumpOutcome(doc) = "raise" THEN "failed"
                 ELSE IF idx = Len(virsh_ids) THEN "retry"
                 ELSE "dump"
    /\ UNCHANGED <<attempt, virsh_ids, macs, leases, ips, result, sleptLoc,
                   sleptRes>>
    /\ UNCHANGED other_vars

\* lines 250-253: no domain matched in this pass
LocatorRetry ==
    /\ pc = "retry"
    /\ attempt' = attempt + 1
    /\ IF LocatorGivesUp(attempt')
       THEN /\ pc' = "failed"
            /\ failure' = LocatorExhausted
            /\ sleptLoc' = sleptLoc
       ELSE /\ pc' = "list"
            /\ failure' = failure
            /\ sleptLoc' = sleptLoc + LocatorSleep
    /\ UNCHANGED <<current_lab, virsh_ids, idx, macs, leases, ips, stdout,
                   result, cmd, dumped, last_doc, nList, nLease,
                   sleptRes>>
    /\ UNCHANGED other_vars

\* lines 255-263: the MACs of the matched domain
ExtractMacs ==
    /\ pc = "macs"
    /\ LET o == MacsOutcome(current_lab)
       IN  IF o.ok
           THEN /\ macs' = o.macs
                /\ ips' = <<>>
                /\ attempt' = 0
                /\ pc' = "poll"
                /\ failure' = failure
           ELSE /\ pc' = "failed"
                /\ failure' = o.error
                /\ UNCHANGED <<macs, ips, attempt>>
    /\ UNCHANGED <<current_lab, virsh_ids, idx, leases, stdout, result, cmd,
                   dumped, last_doc, nList, nLease, sleptLoc,
                   sleptRes>>
    /\ UNCHANGED other_vars

\* lines 264-277: one turn of `while not ips`
LeasePoll ==
    /\ pc = "poll"
    /\ Issue
    /\ \E out \in LeaseOutputs :
        /\ stdout' = out
        /\ leases' = ParseLeases(out)
    /\ ips' = LookupIps(macs, leases')
    /\ attempt' = attempt + 1
    /\ IF ResolverGivesUp(attempt')
       THEN /\ pc' = "failed"
            /\ failure' = ResolverExhausted
            /\ sleptRes' = sleptRes
       ELSE /\ pc' = IF ResolverLoops(ips') THEN "poll" ELSE "check"
            /\ failure' = failure
            /\ sleptRes' = sleptRes + ResolverSleep
    /\ UNCHANGED <<current_lab, virsh_ids, idx, macs, result, last_doc,
                   sleptLoc>>
    /\ UNCHANGED other_vars

\* lines 279-284: the loop has ended with some IP
Finish ==
    /\ pc = "check"
    /\ IF IsAmbiguous(ips)
       THEN /\ pc' = "failed"
            /\ failure' = AmbiguousLease
            /\ result' = result
       ELSE /\ pc' = "done"
            /\ failure' = failure
            /\ result' = ips[1]
    /\ UNCHANGED <<attempt, current_lab, virsh_ids, idx, macs, leases, ips,
                   stdout, cmd, dumped, last_doc, nList, nLease,
                   sleptLoc, sleptRes>>
    /\ UNCHANGED other_vars

Next ==
    \/ ListDomains
    \/ DumpXml
    \/ LocatorRetry
    \/ ExtractMacs
    \/ LeasePoll
    \/ Finish
    \/ ExecuteRaises

Spec == Init /\ [][Next]_vars

\* the wrapper on its own, under every order of calls and remote outcome
SshSpec == Init /\ [][SshNext]_vars

\* the fixture with its lab, under every environment and outcome
FixtureInit == LeaseInit /\ SshIdle /\ CmlInit

CmlSpec == FixtureInit /\ [][CmlNext]_vars

\* what the exception raised at lines 252, 276 and 282 carries besides its
\* fixed message: Exception(<literal>) is given no other argument
FailureData(f) == {}

----------------------------------------------------------------------------
(* Vocabulary of the properties, stated on the command outputs themselves *)

LeaseCommand == "sudo virsh net-dhcp-leases default"
DumpCommand == "sudo virsh dumpxml"
ListCommand == "sudo virsh list --all"

\* the text contains the lab id somewhere
HasLabId(text) ==
    \E i \in 1..Len(text) : \E j \in i..Len(text) :
        SubSeq(text, i, j) = current_lab_id

\* a domain whose dump contained the lab id has been seen
Matched == HasLabId(last_doc.text)

\* the latest command was a lease listing, and it returned
PollReturned == cmd.op = LeaseCommand /\ failure # ChannelError

\* the latest command was a domain dump, and it returned
DumpReturned == cmd.op = DumpCommand /\ failure # ChannelError

\* the lease rows of the latest lease listing
LeaseRows ==
    LET ls == splitlines(stdout)
    IN  {split(ls[n]) : n \in {k \in 1..Len(ls) : Len(split(ls[k])) = 7}}

\* the interfaces of the matched domain whose MAC has a row in that listing
ResolvedInterfaces ==
    {j \in 1..Len(last_doc.interfaces) :
        \E p \in LeaseRows : p[3] = last_doc.interfaces[j]}

\* r is the address of the field f: f itself, or what precedes its first "/"
IsAddressOf(r, f) ==
    /\ \A i \in 1..Len(r) : r[i] # "/"
    /\ \/ f = r
       \/ /\ Len(f) > Len(r)
          /\ SubSeq(f, 1, Len(r)) = r
          /\ f[Len(r) + 1] = "/"

\* the phase of the sequence, in the words of the specification
Phase ==
    IF pc \in {"list", "dump", "retry", "macs"} THEN "LOCATING"
    ELSE IF pc \in {"poll", "check"} THEN "RESOLVING"
    ELSE IF pc = "done" THEN "DONE"
    ELSE "FAILED"

----------------------------------------------------------------------------
(* C1: on whichever of the 30 lease polls is the first to resolve a target *)
(* MAC, if it resolves exactly one, the call does not fail and returns     *)
(* that MAC's leased address.                                              *)
C1_SoleLeaseIsReturned ==
    (PollReturned /\ Cardinality(ResolvedInterfaces) = 1)
        => /\ pc \in {"check", "done"}
           /\ pc = "done" =>
                \E j \in ResolvedInterfaces : \E p \in LeaseRows :
                    /\ p[3] = last_doc.interfaces[j]
                    /\ IsAddressOf(result, p[5])

(* C2: a lease poll (any of the 30) in which two or more target MACs       *)
(* resolve ends the call on that poll with the ambiguous-lease failure,    *)
(* never with the exhaustion failure, another poll or a returned address.  *)
C2_AmbiguousFailsAtOnce ==
    (PollReturned /\ Cardinality(ResolvedInterfaces) >= 2)
        => /\ pc \in {"check", "failed"}
           /\ pc = "failed" => failure = AmbiguousLease
           /\ result = NoResult

(* C3: a returned value is one address: the one that the last lease row    *)
(* of the final poll for a MAC of the matched domain carries, cut at the   *)
(* first "/"; nothing but the final listing and the target MACs decide it. *)
C3_ResultFromFinalPoll ==
    pc = "done" =>
        LET ls == splitlines(stdout)
        IN  \E n \in 1..Len(ls) :
                /\ Len(split(ls[n])) = 7
                /\ \E j \in 1..Len(last_doc.interfaces) :
                        split(ls[n])[3] = last_doc.interfaces[j]
                /\ \A k \in (n + 1)..Len(ls) :
                        Len(split(ls[k])) = 7
                            => split(ls[k])[3] # split(ls[n])[3]
                /\ IsAddressOf(result, split(ls[n])[5])

C3_Witness ==
    /\ pc = "done"
    /\ nLease = 3
    /\ result = Ip2
    /\ \E p \in LeaseRows : p[3] = OtherMac /\ p[5] = Cidr(Ip3)
    /\ \E p \in LeaseRows : p[3] = Mac(2) /\ p[5] = Cidr(Ip2)

(* C4: when no target MAC ever resolves, the resolver polls exactly 30     *)
(* times, sleeps 10 between consecutive polls (290 in all, within 300),    *)
(* then fails with the resolver-exhausted failure; there is no 31st poll.  *)
C4_ResolverBudget ==
    /\ nLease <= 30
    /\ sleptRes <= 300
    /\ (PollReturned /\ ResolvedInterfaces = {})
        => IF nLease < 30
           THEN pc = "poll" /\ sleptRes = 10 * nLease
           ELSE /\ pc = "failed"
                /\ failure = ResolverExhausted
                /\ sleptRes = 10 * 29

C4_Witness ==
    /\ pc = "failed"
    /\ failure = ResolverExhausted
    /\ nLease = 30
    /\ ResolvedInterfaces = {}
    /\ sleptRes = 290

(* C5: when no domain dump ever contains the lab id, the locator lists    *)
(* the domains exactly 10 times, sleeps 5 between consecutive passes (45   *)
(* in all, within 50), then fails with the locator-exhausted failure, and  *)
(* no lease listing is ever issued.                                        *)
C5_LocatorBudget ==
    /\ nList <= 10
    /\ sleptLoc <= 50
    /\ failure = LocatorExhausted => ~Matched
    /\ (~Matched /\ failure # ChannelError)
        => /\ nLease = 0
           /\ IF pc = "failed"
              THEN /\ failure = LocatorExhausted
                   /\ nList = 10
                   /\ sleptLoc = 5 * 9
              ELSE /\ Phase = "LOCATING"
                   /\ nList < 10 \/ pc # "list"
                   /\ sleptLoc = 5 * (IF pc = "list" THEN nList
                                      ELSE nList - 1)

C5_Witness ==
    /\ pc = "failed"
    /\ failure = LocatorExhausted
    /\ nList = 10
    /\ sleptLoc = 45
    /\ nLease = 0

(* C6: within a locator pass the dumps are requested in the order of the  *)
(* candidate ids, and the first dump that contains the lab id is the one   *)
(* whose MACs are used: once it is seen, no dump and no listing follows.   *)
C6_FirstMatchInOrder ==
    /\ [](/\ Len(dumped) <= Len(virsh_ids)
          /\ \A j \in 1..Len(dumped) : dumped[j] = virsh_ids[j]
          /\ Phase \in {"RESOLVING", "DONE"}
                => /\ Matched
                   /\ macs = last_doc.interfaces
                   /\ dumped # <<>>)
    /\ [][(nList' # nList \/ dumped' # dumped) => ~Matched]_vars

C6_Witness ==
    /\ Phase = "RESOLVING"
    /\ nList = 2
    /\ virsh_ids = <<<<"2">>, <<"1">>>>
    /\ dumped = <<<<"2">>>>
    /\ macs = <<Mac(1), Mac(2)>>

(* C7: for a matched domain with n >= 1 interface elements (one included)  *)
(* the locator yields the MAC of each of the n interfaces and the resolver *)
(* runs against exactly those; the number of interfaces causes no failure. *)
C7_EveryInterfaceMac ==
    (Matched /\ last_doc.wellformed /\ Len(last_doc.interfaces) >= 1
             /\ pc # "macs")
        => /\ failure \notin {"KeyError", "TypeError"}
           /\ macs = last_doc.interfaces

(* C8: a matched domain without interface elements yields an empty MAC     *)
(* set and the call goes on to the lease resolver, to end with resolver    *)
(* exhaustion and not with an error raised while the MACs are extracted.   *)
C8_NoInterfaceNoCrash ==
    (Matched /\ last_doc.wellformed /\ last_doc.interfaces = <<>>
             /\ pc # "macs")
        => /\ macs = <<>>
           /\ \/ pc = "poll"
              \/ /\ pc = "failed"
                 /\ nLease >= 1
                 /\ failure \in {ResolverExhausted, ChannelError}

(* C9: a dump that contains the lab id but is not well-formed XML ends     *)
(* the call at once with the parse failure: no sleep after it, no further  *)
(* listing or dump, no lease listing, whatever passes and ids remain.      *)
C9_ParseErrorIsFatal ==
    /\ failure = ParseError => (Matched /\ ~last_doc.wellformed)
    /\ (Matched /\ ~last_doc.wellformed)
        => /\ pc = "failed"
           /\ failure = ParseError
           /\ cmd.op = DumpCommand
           /\ dumped # <<>>
           /\ cmd.arg = dumped[Len(dumped)]
           /\ nLease = 0
           /\ sleptRes = 0
           /\ attempt = nList - 1
           /\ sleptLoc = 5 * (nList - 1)

C9_Witness ==
    /\ failure = ParseError
    /\ nList = 2
    /\ Len(virsh_ids) = 2
    /\ Len(dumped) = 1

(* C10: every run goes LOCATING -> RESOLVING -> DONE, with FAILED          *)
(* terminal: list and dump commands all come before any lease listing, a   *)
(* lease listing is issued only after a domain has matched, and nothing is *)
(* issued or restarted once the run has failed or returned.                *)
C10_PhaseOrder ==
    /\ [](nLease > 0 => (Matched /\ last_doc.wellformed))
    /\ [][nLease' # nLease => (Phase = "RESOLVING" /\ Matched)]_vars
    /\ [][(nList' # nList \/ dumped' # dumped \/ cmd' # cmd)
            => Phase \in {"LOCATING", "RESOLVING"}]_vars
    /\ [][(nList' # nList \/ dumped' # dumped)
            => (Phase = "LOCATING" /\ nLease = 0)]_vars
    /\ [][(Phase \in {"DONE", "FAILED"}) => UNCHANGED vars]_vars
    /\ [][(<<Phase, Phase'>> \in
            {<<"LOCATING", "LOCATING">>, <<"LOCATING", "RESOLVING">>,
             <<"LOCATING", "FAILED">>, <<"RESOLVING", "RESOLVING">>,
             <<"RESOLVING", "DONE">>, <<"RESOLVING", "FAILED">>})]_vars

C10_Witness ==
    /\ pc = "done"
    /\ nList = 2
    /\ nLease = 2
    /\ sleptLoc = 5
    /\ sleptRes = 20

----------------------------------------------------------------------------
(* More vocabulary *)

\* the latest command was a domain listing, and it returned
ListReturned == cmd.op = ListCommand /\ failure # ChannelError

RECURSIVE LeadingSpaces(_)
LeadingSpaces(line) ==
    IF line # <<>> /\ line[1] \in {" ", "\t"}
    THEN 1 + LeadingSpaces(Tail(line))
    ELSE 0

RECURSIVE IdRun(_)
IdRun(line) ==
    IF line # <<>> /\ \E d \in 0..9 : line[1] = Digits[d + 1]
    THEN <<line[1]>> \o IdRun(Tail(line))
    ELSE <<>>

\* the ids of the rows that open with whitespace and then digits: with
\* exactly one whitespace character if `exact`, with one or more otherwise
RECURSIVE ExpectedIds(_, _)
ExpectedIds(lines, exact) ==
    IF lines = <<>> THEN <<>>
    ELSE LET l == Head(lines)
             n == LeadingSpaces(l)
             id == IdRun(SubSeq(l, n + 1, Len(l)))
         IN  (IF (IF exact THEN n = 1 ELSE n >= 1) /\ id # <<>>
              THEN <<id>> ELSE <<>>)
             \o ExpectedIds(Tail(lines), exact)

\* the addresses that the latest lease listing gives the target MACs
ResolvedIps ==
    LET ls == splitlines(stdout)
    IN  {r \in {Ip1, Ip2, Ip3} :
            \E n \in 1..Len(ls) :
                /\ Len(split(ls[n])) = 7
                /\ \E j \in 1..Len(last_doc.interfaces) :
                        split(ls[n])[3] = last_doc.interfaces[j]
                /\ \A k \in (n + 1)..Len(ls) :
                        Len(split(ls[k])) = 7
                            => split(ls[k])[3] # split(ls[n])[3]
                /\ IsAddressOf(r, split(ls[n])[5])}

----------------------------------------------------------------------------
(* C11: the failure that reaches the caller names its cause: locator       *)
(* exhaustion, resolver exhaustion and ambiguous lease are three distinct  *)
(* failures, each raised for its own cause only, never one for another's   *)
(* and never a default value.                                              *)
C11_FailureNamesCause ==
    /\ Cardinality({LocatorExhausted, ResolverExhausted, AmbiguousLease}) = 3
    /\ pc = "failed" => (failure # NoFailure /\ result = NoResult)
    /\ failure = LocatorExhausted => ~Matched
    /\ failure = ResolverExhausted
        => (Matched /\ cmd.op = LeaseCommand /\ ResolvedInterfaces = {})
    /\ failure = AmbiguousLease
        => (Matched /\ cmd.op = LeaseCommand
                    /\ Cardinality(ResolvedInterfaces) >= 2)

(* C14: the resolver sleeps only after a poll that resolved nothing: a     *)
(* call that returns after its k-th poll has slept k-1 times 10, and has   *)
(* neither polled nor slept after the resolving poll.                      *)
C14_NoSleepAfterResolve ==
    (pc = "done" /\ nLease < 30) => sleptRes = 10 * (nLease - 1)

(* C15: the ambiguous-lease failure is raised only when the target MACs    *)
(* map to more than one address: when all that resolve map to one and the  *)
(* same address (or one MAC sits on several interfaces), it is returned.   *)
C15_AmbiguousNeedsTwoIps ==
    /\ failure = AmbiguousLease => Cardinality(ResolvedIps) > 1
    /\ (PollReturned /\ Cardinality(ResolvedIps) = 1 /\ nLease < 30)
        => /\ pc \in {"check", "done"}
           /\ pc = "done" => result \in ResolvedIps

(* C16: the lease table of a poll has an entry exactly for the lines that  *)
(* split on whitespace into exactly 7 fields, keyed by field 2 (the MAC),  *)
(* its value field 4 cut at the first "/"; other lines add nothing.        *)
C16_LeaseTableFromSevenFields ==
    PollReturned =>
        LET ls == splitlines(stdout)
        IN  /\ DOMAIN leases = {p[3] : p \in LeaseRows}
            /\ \A n \in 1..Len(ls) :
                 (/\ Len(split(ls[n])) = 7
                  /\ \A k \in (n + 1)..Len(ls) :
                        Len(split(ls[k])) = 7
                            => split(ls[k])[3] # split(ls[n])[3])
                    => IsAddressOf(leases[split(ls[n])[3]], split(ls[n])[5])

C16_Witness ==
    /\ PollReturned
    /\ DOMAIN leases = {OtherMac}
    /\ leases[OtherMac] = Ip3
    /\ \E n \in 1..Len(splitlines(stdout)) :
            Len(split(splitlines(stdout)[n])) = 8
    /\ \E n \in 1..Len(splitlines(stdout)) :
            /\ Len(split(splitlines(stdout)[n])) = 6
            /\ split(splitlines(stdout)[n])[3] = Mac(1)

(* C17 as stated: the candidate ids of a domain listing are, in listing    *)
(* order, the numbers of the lines that open with one or more whitespace   *)
(* characters followed by digits; no other line yields a candidate.        *)
C17_IdsOfIndentedRows ==
    ListReturned => virsh_ids = ExpectedIds(splitlines(stdout), FALSE)

(* C17 as amended: the candidate ids of a domain listing are, in listing   *)
(* order, the numbers of the lines that open with exactly one whitespace   *)
(* character followed by digits; no other line yields a candidate.         *)
C17_IdsOfOneSpaceRows ==
    ListReturned => virsh_ids = ExpectedIds(splitlines(stdout), TRUE)

C17_Witness ==
    /\ ListReturned
    /\ virsh_ids = <<<<"1", "2">>>>
    /\ \E n \in 1..Len(splitlines(stdout)) :
            splitlines(stdout)[n] = <<" ", " ", "3", " ", "r">>
    /\ \E n \in 1..Len(splitlines(stdout)) :
            splitlines(stdout)[n] = <<"4", " ", "r">>

(* C18: the exhaustion failures carry their diagnostic data: the locator   *)
(* one the target lab id and the attempt count (10), the resolver one the  *)
(* MACs that were attempted.                                               *)
C18_FailuresCarryData ==
    /\ failure = LocatorExhausted
        => /\ current_lab_id \in FailureData(failure)
           /\ attempt \in FailureData(failure)
    /\ failure = ResolverExhausted => macs \in FailureData(failure)

\* a measure of the steps the call can still take
Rank ==
    LET resolving == 2 * 30 + 3
    IN  IF pc = "list" THEN resolving + 100 * (10 - attempt)
        ELSE IF pc = "dump" THEN resolving + 100 * (10 - attempt) - 1 - idx
        ELSE IF pc = "retry" THEN resolving + 100 * (10 - attempt) - 99
        ELSE IF pc = "macs" THEN resolving
        ELSE IF pc = "poll" THEN 2 * (30 - attempt) + 2
        ELSE IF pc = "check" THEN 1
        ELSE 0

(* C19: whatever the commands return, the call ends, with an address or a *)
(* failure, after at most 10 domain listings, at most as many dumps after  *)
(* each listing as it has candidate ids, and at most 30 lease listings:    *)
(* every step of the call lowers a measure that is 0 only when it is over. *)
C19_EndsWithinBudgets ==
    /\ [](/\ nList <= 10
          /\ Len(dumped) <= Len(virsh_ids)
          /\ nLease <= 30
          /\ Rank >= 0
          /\ Rank = 0 <=> pc \in {"done", "failed"}
          /\ pc = "done" => (result # NoResult /\ failure = NoFailure)
          /\ pc = "failed" => (result = NoResult /\ failure # NoFailure))
    /\ [][Rank' < Rank]_vars

C19_Witness ==
    /\ pc = "failed"
    /\ failure = ResolverExhausted
    /\ nList = 10
    /\ Len(dumped) = 2
    /\ nLease = 30

(* C12: execute on a session that is not connected reconnects once and   *)
(* runs the command on the new channel, returning its output; when the     *)
(* reconnect (the close, the connect or the new channel) fails, that       *)
(* failure is raised, the command is not run and no second connect is made.*)
C12_ReconnectOnce ==
    (ssh_call.op = "execute" /\ ~ssh_call.was_connected)
        => LET w == ssh_call.weather
           IN  /\ ssh_call.closes = 1
               /\ ssh_call.connects <= 1
               /\ (w.close_ok /\ w.connect_ok /\ w.channel_ok
                    /\ ssh_call.error # "AttributeError")
                    => ssh_call.opened # 0
               /\ ssh_call.opened # 0
                    => /\ ssh_call.connects = 1
                       /\ ssh_call.ran_on = ssh_call.opened
                       /\ w.exec_ok
                            => /\ ssh_call.out = "return"
                               /\ ssh_call.stdout
                                    = <<"stdout of", ssh_call.command>>
               /\ ssh_call.opened = 0
                    => /\ ssh_call.out = "raise"
                       /\ ssh_call.error \in {ChannelError, "AttributeError"}
                       /\ ssh_call.ran_on = 0
                       /\ ssh_call.stdout = <<>>

C12_Witness ==
    /\ ssh_call.op = "execute"
    /\ ~ssh_call.was_connected
    /\ ssh_call.out = "return"
    /\ ssh_call.connects = 1
    /\ ssh_call.opened = 2
    /\ ssh_call.ran_on = 2
    /\ ssh_channel = [id |-> 2, open |-> TRUE]

----------------------------------------------------------------------------
(* The fixture and its lab *)

RmCommands ==
    {i \in DOMAIN cml_cmds : cml_cmds[i].op = "cml rm --force --no-confirm"}

FixtureEnded == fx_pc \in {"failed", "finished"}

\* C13: every lab that bring_up started for this session is removed exactly
\* once on every path of the fixture: when the fixture has ended, by its
\* failure path or by its teardown, and a lab was started, exactly one
\* "cml rm" was issued, right after "cml use --id" of that lab; and never
\* more than one is issued.
C13_StartedLabRemovedOnce ==
    /\ Cardinality(RmCommands) <= 1
    /\ (started # <<>> /\ FixtureEnded)
         => /\ Cardinality(RmCommands) = 1
            /\ \A i \in RmCommands :
                 /\ i > 1
                 /\ cml_cmds[i - 1] = Command("cml use --id", started)

\* the entries of an env file: its lines without their newlines
EnvLines(text) == splitlines(text)

LabsLines(lines) == {k \in 1..Len(lines) : startswith(lines[k], CmlLabsKey)}

OtherLines(lines) == SelectSeq(lines, LAMBDA l : ~startswith(l, CmlLabsKey))

LabsValue(line) == SubSeq(line, Len(CmlLabsKey) + 1, Len(line))

\* C20: when bring_up started a lab with GITHUB_ACTIONS and GITHUB_ENV set,
\* the env file holds exactly one CML_LABS entry, its value on that one line
\* is the value stored before, a comma and the new lab id (the new lab id
\* alone when nothing was stored), and the other lines are the ones the
\* file had before.
C20_EnvFileHoldsLabs ==
    (started # <<>> /\ github_actions /\ github_env)
        => LET before == EnvLines(env_before)
               after == EnvLines(env_file)
           IN  /\ Cardinality(LabsLines(after)) = 1
               /\ \A k \in LabsLines(after) :
                    LabsValue(after[k]) =
                        IF LabsLines(before) = {} THEN started
                        ELSE LET b == CHOOSE j \in LabsLines(before) :
                                        \A x \in LabsLines(before) : j <= x
                             IN  LabsValue(before[b]) \o <<",">> \o started
               /\ OtherLines(after) = OtherLines(before)

----------------------------------------------------------------------------
(* The wrapper's commands *)

\* the text reports a provisioned lab of this id: "ID: <id>)" ends a line
ReportsLab(text, id) ==
    LET shown == IdMarker \o id \o <<")", NL>>
    IN  \E q \in 1..Len(text) :
            /\ q + Len(shown) - 1 <= Len(text)
            /\ SubSeq(text, q, q + Len(shown) - 1) = shown

KnownLabs == {Lab(1), Lab(2), Lab(3)}

BringUpRan == fx_pc \notin {"start", "bring_up"} /\ cml_cmds # <<>>

\* the commands of the given kinds, in the order they were issued
CommandsOf(ops) == SelectSeq(cml_cmds, LAMBDA c : c.op \in ops)

RemovalOps == {"cml use --id", "cml rm --force --no-confirm"}

\* C21: when "cml id" reports a provisioned lab, bring_up adopts its id and
\* issues no "cml up", and no "cml use" or "cml rm" is ever issued after;
\* the only removal commands ever issued are "use --id <id>" and then
\* "rm --force --no-confirm", for the id of a lab that this wrapper started.
C21_OnlyOwnLabRemoved ==
    /\ \A l \in KnownLabs :
         (BringUpRan /\ ReportsLab(id_stdout, l))
            => /\ cml_lab_id = l
               /\ started = <<>>
               /\ CommandsOf({"cml up -f"}) = <<>>
               /\ CommandsOf(RemovalOps) = <<>>
    /\ CommandsOf(RemovalOps) # <<>>
         => /\ started # <<>>
            /\ CommandsOf({"cml up -f"}) # <<>>
            /\ CommandsOf(RemovalOps)
                 = <<Command("cml use --id", started),
                     Command("cml rm --force --no-confirm", <<>>)>>
            /\ cml_cmds[Len(cml_cmds)].op = "cml rm --force --no-confirm"
            /\ cml_cmds[Len(cml_cmds) - 1].op = "cml use --id"

\* an adopted lab outlives the fixture's teardown: remove() ran and issued
\* nothing
C21_Witness ==
    /\ fx_pc = "finished"
    /\ ReportsLab(id_stdout, Lab(1))
    /\ cml_lab_id = Lab(1)
    /\ cml_cmds = <<Command("cml id", <<>>)>>

====
